---------------------------- MODULE Spec2Model ----------------------------
(***************************************************************************)
(* django-imagefield: derivative naming (fields.py urlhash,                *)
(* _processed_name, _processed_base, _ppoi), derivative generation         *)
(* (ImageFieldFile.process), the format attributes of a field file         *)
(* (__getattr__), save_form_data, the post-save and post-delete receivers, *)
(* and the process_all_imagefields management command.                     *)
(*                                                                         *)
(* Text is modelled as a sequence of characters; a character is a TLA+     *)
(* string (multi-letter tokens such as "0.5" or "__processed__" stand for  *)
(* a run of characters that no operation of the program splits).           *)
(***************************************************************************)
EXTENDS Integers, Sequences, FiniteSets, TLC

(***************************************************************************)
(* Bounds of the model.                                                    *)
(***************************************************************************)
NumCallers == 2
MaxCalls == 2
MaxPpoiEdits == 1
MaxCleanups == 1
MaxFilterArgs == 2
MaxFormSaves == 1
MaxReads == 2

(***************************************************************************)
(* Program constants.                                                      *)
(***************************************************************************)
\* length of urlsafe_base64_encode(sha1 digest): 20 bytes -> 27 characters
HashLen == 27
\* p1[:2] is the shard directory, p1[2:] the per-source prefix
ShardLen == 2

Callers == 1..NumCallers
MainCaller == 1

(***************************************************************************)
(* State.                                                                  *)
(***************************************************************************)
VARIABLES
    storage,    \* the storage backend: path -> content
    ppoitext,   \* record -> text of its PPOI field
    pc,         \* caller -> position inside process
    cur,        \* caller -> the process call in flight
    queue,      \* caller -> process calls its handler still has to make
    kind,       \* caller -> which handler it runs: "call", "hook", "batch"
    result,     \* caller -> how its last handler ended
    hist,       \* the finished process calls, in order of completion
    started,    \* number of process calls started so far
    edits,      \* number of PPOI edits so far
    cleanups,   \* the post_delete receiver invocations so far
    batch,      \* the arguments and output of the management command
    source,     \* (field, record) -> name of the record's source image
    form,       \* the last save_form_data call, and how many there were
    memo,       \* (field, record) -> format -> URL set on the field file
    reads       \* the reads of format attributes so far

vars == <<storage, ppoitext, pc, cur, queue, kind, result, hist, started, edits,
          cleanups, batch, source, form, memo, reads>>

(***************************************************************************)
(* Text helpers (Python str operations used by the code).                  *)
(***************************************************************************)
Max(S) == CHOOSE x \in S : \A y \in S : y <= x

\* sep.join(parts)
RECURSIVE Join(_, _)
Join(parts, sep) ==
    IF parts = <<>> THEN <<>>
    ELSE IF Len(parts) = 1 THEN parts[1]
    ELSE parts[1] \o sep \o Join(Tail(parts), sep)

\* s.split(sep) for a one-character separator: always at least one part
RECURSIVE Split(_, _)
Split(s, sep) ==
    IF \A i \in 1..Len(s) : s[i] # sep THEN <<s>>
    ELSE LET k == CHOOSE i \in 1..Len(s) :
                      s[i] = sep /\ \A j \in 1..(i - 1) : s[j] # sep
         IN <<SubSeq(s, 1, k - 1)>> \o Split(SubSeq(s, k + 1, Len(s)), sep)

\* s.startswith(prefix)
StartsWith(s, prefix) ==
    Len(prefix) <= Len(s) /\ SubSeq(s, 1, Len(prefix)) = prefix

\* str.lower(), character by character
LowerChar(ch) ==
    CASE ch = "App" -> "app"
      [] ch = "M1" -> "m1"
      [] ch = "M2" -> "m2"
      [] ch = "Image" -> "image"
      [] OTHER -> ch

Lower(s) == [i \in 1..Len(s) |-> LowerChar(s[i])]

\* os.path.splitext(name)[1]: the suffix from the last dot of the last path
\* component, unless that dot only follows leading dots
SplitExt(name) ==
    LET sepI == Max({0} \cup {i \in 1..Len(name) : name[i] = "/"})
        dotI == Max({0} \cup {i \in 1..Len(name) : name[i] = "."})
    IN IF dotI > sepI /\ \E k \in (sepI + 1)..(dotI - 1) : name[k] # "."
       THEN SubSeq(name, dotI, Len(name))
       ELSE <<>>

(***************************************************************************)
(* urlhash: SHA-1 then URL-safe base64, 27 characters.  The digest is      *)
(* taken as injective on the texts of the model: the text itself, padded   *)
(* to the fixed length of the encoded digest.                              *)
(***************************************************************************)
urlhash(str) ==
    [i \in 1..HashLen |-> IF i <= Len(str) THEN str[i] ELSE "="]

(***************************************************************************)
(* PPOI: the companion field holds text such as "0.5x0.5".  float() is     *)
(* modelled on the literals of the model; floats are counted in tenths.    *)
(***************************************************************************)
\* the value None of a text attribute
None == <<"<None>">>

\* the literals float() accepts
IsFloatLiteral(coord) ==
    coord \in {<<"0.5">>, <<"0.5", "0">>, <<"0.2">>, <<"0.8">>}

\* float(coord) of an accepted literal, in tenths
Float(coord) ==
    CASE coord = <<"0.5">> -> 5
      [] coord = <<"0.5", "0">> -> 5
      [] coord = <<"0.2">> -> 2
      [] coord = <<"0.8">> -> 8

\* repr(float), as str(list) renders each element
FloatRepr(x) ==
    CASE x = 5 -> <<"0.5">>
      [] x = 2 -> <<"0.2">>
      [] x = 8 -> <<"0.8">>

\* str([x, y, ...])
StrList(xs) ==
    <<"[">> \o Join([i \in 1..Len(xs) |-> FloatRepr(xs[i])], <<",", " ">>) \o <<"]">>

DefaultPpoi == <<5, 5>>

\* ImageFieldFile._ppoi: [ok, value, error].  ok is FALSE when the code raises
\* (AttributeError on None.split, ValueError in float()).
_ppoi(ppoi_field, text) ==
    IF ppoi_field
    THEN IF text = None
         THEN [ok |-> FALSE, value |-> <<>>, error |-> "AttributeError"]
         ELSE LET coords == Split(text, "x")
              IN IF \E i \in 1..Len(coords) : ~IsFloatLiteral(coords[i])
                 THEN [ok |-> FALSE, value |-> <<>>, error |-> "ValueError"]
                 ELSE [ok |-> TRUE,
                       value |-> [i \in 1..Len(coords) |-> Float(coords[i])],
                       error |-> ""]
    ELSE [ok |-> TRUE, value |-> DefaultPpoi, error |-> ""]

(***************************************************************************)
(* Derivative paths.                                                       *)
(***************************************************************************)
\* the recipe rendered through the identity of the processor objects, which
\* differs from one call to the next
ProcessedNameByIdentity(name, processors, ppoi) ==
    LET p1 == urlhash(name)
        p2 == urlhash(<<"object at", ToString(started)>> \o <<"|">> \o StrList(ppoi))
        ext == SplitExt(name)
    IN <<"__processed__", "/">> \o SubSeq(p1, 1, ShardLen) \o <<"/">>
         \o SubSeq(p1, ShardLen + 1, HashLen) \o <<"_">> \o p2 \o ext

\* ImageFieldFile._processed_name: processors is the recipe, a sequence of
\* descriptors, each given by its str(); ppoi is the value of _ppoi().
_processed_name(name, processors, ppoi) ==
    LET p1 == urlhash(name)
        p2 == urlhash(Join(processors, <<"|">>) \o <<"|">> \o StrList(ppoi))
        ext == SplitExt(name)
    IN <<"__processed__", "/">> \o SubSeq(p1, 1, ShardLen) \o <<"/">>
         \o SubSeq(p1, ShardLen + 1, HashLen) \o <<"_">> \o p2 \o ext

\* the shard folder alone, with no file name prefix
ProcessedBaseShardOnly(name) ==
    [folder |-> <<"__processed__", "/">> \o SubSeq(urlhash(name), 1, ShardLen),
     startswith |-> <<>>]

\* ImageFieldFile._processed_base: (folder, startswith)
_processed_base(name) ==
    LET p1 == urlhash(name)
    IN [folder |-> <<"__processed__", "/">> \o SubSeq(p1, 1, ShardLen),
        startswith |-> SubSeq(p1, ShardLen + 1, HashLen) \o <<"_">>]

\* the directory and the file name of a storage path
LastSlash(path) == Max({0} \cup {i \in 1..Len(path) : path[i] = "/"})
DirName(path) == SubSeq(path, 1, LastSlash(path) - 1)
BaseName(path) == SubSeq(path, LastSlash(path) + 1, Len(path))

(***************************************************************************)
(* The schema: IMAGE_FIELDS in declaration order, the records of each      *)
(* model and the source image name each record holds per field.            *)
(***************************************************************************)
F1 == [label |-> <<"app", ".", "m1">>, name |-> <<"image">>, ppoi_field |-> TRUE,
       keys |-> <<"thumb", "square">>,
       formats |-> [thumb |-> << <<"a">>, <<"b">> >>, square |-> << <<"c">> >>]]
F2 == [label |-> <<"app", ".", "m1">>, name |-> <<"cover">>, ppoi_field |-> FALSE,
       keys |-> <<"thumb">>,
       formats |-> [thumb |-> << <<"a">>, <<"b">> >>]]
F3 == [label |-> <<"app", ".", "m2">>, name |-> <<"photo">>, ppoi_field |-> TRUE,
       keys |-> <<"main", "bad">>,
       formats |-> [main |-> << <<"a", "|", "b">> >>, bad |-> << <<"zz">> >>]]

IMAGE_FIELDS == <<F1, F2, F3>>
FieldIds == 1..Len(IMAGE_FIELDS)

Records == {"r1", "r2", "r3"}

\* the model a record belongs to (model._meta.label_lower)
ModelOf(r) == IF r = "r3" THEN <<"app", ".", "m2">> ELSE <<"app", ".", "m1">>

\* queryset order of field.model._default_manager.all()
AllRecords == <<"r1", "r2", "r3">>

N1 == <<"a", "b", "1", ".", "j">>
N2 == <<"a", "b", "2", ".", "j">>
EmptyName == <<>>

\* the source image each record holds at the start
InitialSource(f, r) ==
    CASE f = 1 /\ r = "r1" -> N1
      [] f = 1 /\ r = "r2" -> N2
      [] f = 2 /\ r = "r1" -> EmptyName
      [] f = 2 /\ r = "r2" -> N1
      [] f = 3 /\ r = "r3" -> N1

HasField(f, r) == IMAGE_FIELDS[f].label = ModelOf(r)

\* the field files: one per field and record of the field's model
FieldFiles == {fr \in FieldIds \X Records : HasField(fr[1], fr[2])}

\* getattr(instance, field.name).name
SourceName(f, r) == source[<<f, r>>]

\* values the companion PPOI text field of a record takes
PpoiTexts ==
    { <<"0.5", "x", "0.5">>, <<"0.5", "0", "x", "0.5">>, <<"0.2", "x", "0.8">>,
      <<"0.5">>, <<>>, <<"a", "b", "c">>, None }

\* the recipe of a format of a field: field.formats[item]
Recipe(f, item) == IMAGE_FIELDS[f].formats[item]

(***************************************************************************)
(* The storage backend (Django's Storage API, as process and the cleanup   *)
(* use it): a function from the paths that exist to their content.         *)
(***************************************************************************)
EmptyStorage == [p \in {} |-> [by |-> 0]]

\* storage.exists(name)
StorageExists(st, name) == name \in DOMAIN st

\* the whole directory of the file is removed
StorageDeleteFolder(st, name) ==
    [p \in {q \in DOMAIN st : DirName(q) # DirName(name)} |-> st[p]]

\* storage.delete(name): no error when the file is missing
StorageDelete(st, name) == [p \in (DOMAIN st) \ {name} |-> st[p]]

\* Storage.get_alternative_name: file_root + "_" + random characters + ext
AltName(name, k) ==
    LET ext == SplitExt(name)
    IN SubSeq(name, 1, Len(name) - Len(ext)) \o <<"_", "alt", ToString(k)>> \o ext

\* The names storage.save(name, content) may store the content under: name
\* itself when it is free; when it is taken the backend either replaces the
\* file or picks an alternative name that is free (the random characters of
\* the alternative names are interchangeable: the first free one is taken).
SaveNames(st, name) ==
    IF ~StorageExists(st, name) THEN {name}
    ELSE LET free == {k \in 1..(Cardinality(DOMAIN st) + 1) :
                          ~StorageExists(st, AltName(name, k))}
             first == CHOOSE k \in free : \A j \in free : k <= j
         IN {name, AltName(name, first)}

StorageWrite(st, actual, content) ==
    [p \in (DOMAIN st) \cup {actual} |-> IF p = actual THEN content ELSE st[p]]

(***************************************************************************)
(* Initial state.                                                          *)
(***************************************************************************)
NoCall == [id |-> 0]
NoBatch == [ran |-> FALSE]
NoForm == [n |-> 0]
NoMemo == [item \in {} |-> <<>>]

AllIdle == \A c \in Callers : pc[c] = "idle" /\ queue[c] = <<>>

Init ==
    /\ storage = EmptyStorage
    /\ ppoitext = [r \in Records |-> <<"0.5", "x", "0.5">>]
    /\ pc = [c \in Callers |-> "idle"]
    /\ cur = [c \in Callers |-> NoCall]
    /\ queue = [c \in Callers |-> <<>>]
    /\ kind = [c \in Callers |-> "call"]
    /\ result = [c \in Callers |-> "none"]
    /\ hist = <<>>
    /\ started = 0
    /\ edits = 0
    /\ cleanups = {}
    /\ batch = NoBatch
    /\ source = [fr \in FieldFiles |-> InitialSource(fr[1], fr[2])]
    /\ form = NoForm
    /\ memo = [fr \in FieldFiles |-> NoMemo]
    /\ reads = <<>>

(***************************************************************************)
(* ImageFieldFile.process, step by step.  The steps that touch the shared  *)
(* storage (exists, delete, save) are separate actions; opening, decoding, *)
(* running the pipeline and encoding touch only the caller's own data.     *)
(***************************************************************************)
\* the existence check inverted
CacheHitInverted(force, exists) == ~force /\ ~exists

\* the force flag ignored
CacheHitIgnoresForce(force, exists) == exists

\* line 63: the early return
CacheHit(force, exists) == ~force /\ exists

\* the exception propagates out of every handler
AfterRaisePropagates(k, q) == <<>>

\* what the handler does with its remaining calls after a call of process
\* raised: the management command swallows the exception (lines 57-60) and
\* goes on; in a receiver or a direct call the exception propagates
AfterRaise(k, q) == IF k = "batch" THEN Tail(q) ELSE <<>>

\* the call at the head of q, made by caller c running a handler of kind k,
\* ends: it returns (raised = FALSE) or raises
Finish(c, k, q, call, raised) ==
    LET rest == IF raised THEN AfterRaise(k, q) ELSE Tail(q)
    IN /\ hist' = Append(hist, call)
       /\ cur' = [cur EXCEPT ![c] = NoCall]
       /\ pc' = [pc EXCEPT ![c] = "idle"]
       /\ queue' = [queue EXCEPT ![c] = rest]
       /\ result' = [result EXCEPT ![c] =
              IF raised /\ k # "batch" THEN "raised"
              ELSE IF rest = <<>> THEN "returned" ELSE "running"]

\* lines 61-64: resolve the target, then the existence check unless forced
Enter(c, k, q) ==
    LET arg == Head(q)
        name == SourceName(arg.field, arg.rec)
        pp == _ppoi(IMAGE_FIELDS[arg.field].ppoi_field, ppoitext[arg.rec])
        processors == Recipe(arg.field, arg.item)
        target == IF pp.ok THEN _processed_name(name, processors, pp.value)
                  ELSE <<>>
        \* "not force and exists(target)": exists is asked unless forced
        checked == IF arg.force THEN <<>> ELSE <<"exists">>
        call == [id |-> started + 1, field |-> arg.field,
                 rec |-> arg.rec, item |-> arg.item, force |-> arg.force,
                 name |-> name, processors |-> processors,
                 ppoitext |-> ppoitext[arg.rec], ppoi |-> pp.value,
                 target |-> target, ops |-> checked, outcome |-> "running",
                 saved |-> <<>>, before |-> storage]
    IN /\ started' = started + 1
       /\ IF ~pp.ok
          THEN Finish(c, k, q, [call EXCEPT !.ops = <<>>, !.outcome = pp.error],
                      TRUE)
          ELSE IF CacheHit(arg.force, StorageExists(storage, target))
          THEN Finish(c, k, q, [call EXCEPT !.outcome = "hit"], FALSE)
          ELSE /\ cur' = [cur EXCEPT ![c] = call]
               /\ pc' = [pc EXCEPT ![c] = "generate"]
               /\ queue' = [queue EXCEPT ![c] = q]
               /\ result' = [result EXCEPT ![c] = "running"]
               /\ UNCHANGED hist

\* the handler of c goes on to its next call of process
ProcessEnter(c) ==
    /\ pc[c] = "idle"
    /\ queue[c] # <<>>
    /\ Enter(c, kind[c], queue[c])
    /\ UNCHANGED <<storage, ppoitext, kind, edits, cleanups, batch,
                   source, form, memo, reads>>

\* the processor names the processing registry knows
KnownProcessors == { <<"a">>, <<"b">>, <<"c">>, <<"a", "|", "b">> }

\* build_handler(processors): the pipeline is built from the registered
\* processors; a name the registry does not know is a configuration error
build_handler(processors) ==
    [ok |-> \A i \in 1..Len(processors) : processors[i] \in KnownProcessors,
     error |-> "ConfigurationError"]

\* what can go wrong while the derivative is produced in memory
GenFaults == {"none", "decode"}

\* lines 66-79: open the source, decode it, build the pipeline, run it,
\* encode
ProcessGenerate(c) ==
    /\ pc[c] = "generate"
    /\ \E fault \in GenFaults :
          LET call == cur[c]
          IN IF call.name = EmptyName \/ fault = "open"
             THEN \* self.open raises: no file, or the file cannot be read
                  Finish(c, kind[c], queue[c], [call EXCEPT !.ops = @ \o <<"open">>,
                                         !.outcome = IF call.name = EmptyName
                                                     THEN "NoFile"
                                                     ELSE "IOError"], TRUE)
             ELSE IF fault = "decode"
             THEN Finish(c, kind[c], queue[c], [call EXCEPT !.ops = @ \o <<"open", "decode">>,
                                         !.outcome = "DecodeError"], TRUE)
             ELSE IF ~build_handler(call.processors).ok
             THEN \* line 75: the handler is built once the image is decoded
                  Finish(c, kind[c], queue[c],
                         [call EXCEPT !.ops = @ \o <<"open", "decode", "build">>,
                                      !.outcome = build_handler(call.processors).error],
                         TRUE)
             ELSE /\ cur' = [cur EXCEPT ![c] =
                        [call EXCEPT !.ops = @ \o <<"open", "decode", "build",
                                                    "pipeline", "encode">>]]
                  /\ pc' = [pc EXCEPT ![c] = "delete"]
                  /\ UNCHANGED <<hist, queue, result>>
    /\ UNCHANGED <<storage, ppoitext, kind, started, edits, cleanups, batch,
                   source, form, memo, reads>>

\* line 81: self.storage.delete(target)
ProcessDelete(c) ==
    /\ pc[c] = "delete"
    /\ storage' = StorageDelete(storage, cur[c].target)
    /\ cur' = [cur EXCEPT ![c].ops = @ \o <<"delete">>]
    /\ pc' = [pc EXCEPT ![c] = "save"]
    /\ UNCHANGED <<ppoitext, queue, kind, result, hist, started, edits, cleanups,
                   batch, source, form, memo, reads>>

\* the bytes process produces: the pipeline output for (source, recipe,
\* PPOI), tagged with the call that produced them
Output(call) ==
    [name |-> call.name, processors |-> call.processors, ppoi |-> call.ppoi,
     by |-> call.id]

\* lines 82-84: self.storage.save(target, ContentFile(...)), then return
ProcessSave(c) ==
    /\ pc[c] = "save"
    /\ \E actual \in SaveNames(storage, cur[c].target) :
          /\ storage' = StorageWrite(storage, actual, Output(cur[c]))
          /\ Finish(c, kind[c], queue[c], [cur[c] EXCEPT !.ops = @ \o <<"save">>,
                                      !.outcome = "saved",
                                      !.saved = actual], FALSE)
    /\ UNCHANGED <<ppoitext, kind, started, edits, cleanups, batch,
                   source, form, memo, reads>>

\* the steps after the pipeline build that can raise: the handler (a
\* processor fails), image.save into the buffer, and storage.save
FailSteps == {"pipeline", "encode", "save"}

\* lines 76-82: one of these steps raises, and process ends there
ProcessFails(c, step) ==
    /\ IF step = "save"
       THEN pc[c] = "save"
       ELSE /\ pc[c] = "generate"
            /\ cur[c].name # EmptyName
            /\ build_handler(cur[c].processors).ok
    /\ LET done == CASE step = "pipeline" ->
                           <<"open", "decode", "build", "pipeline">>
                      [] step = "encode" ->
                           <<"open", "decode", "build", "pipeline", "encode">>
                      [] step = "save" -> <<"save">>
           error == CASE step = "pipeline" -> "ProcessorError"
                      [] step = "encode" -> "EncodeError"
                      [] step = "save" -> "StorageError"
       IN Finish(c, kind[c], queue[c],
                 [cur[c] EXCEPT !.ops = @ \o done, !.outcome = error], TRUE)
    /\ UNCHANGED <<storage, ppoitext, kind, started, edits, cleanups, batch,
                   source, form, memo, reads>>

(***************************************************************************)
(* Callers of process.                                                     *)
(***************************************************************************)
\* caller c starts a handler of kind k that makes the calls of process in
\* calls, and makes the first of them
Handle(c, k, calls) ==
    /\ pc[c] = "idle"
    /\ queue[c] = <<>>
    /\ calls # <<>>
    /\ started + Len(calls) <= MaxCalls
    /\ kind' = [kind EXCEPT ![c] = k]
    /\ Enter(c, k, calls)

\* a direct call fieldfile.process(item, force)
Call(c, f, r, item, force) ==
    /\ HasField(f, r)
    /\ Handle(c, "call", <<[field |-> f, rec |-> r, item |-> item,
                            force |-> force]>>)
    /\ UNCHANGED <<storage, ppoitext, edits, cleanups, batch,
                   source, form, memo, reads>>

\* the receiver stops after the first format
GenerateFirstFormatOnly(c, f, r) ==
    /\ HasField(f, r)
    /\ Handle(c, "hook",
              <<[field |-> f, rec |-> r, item |-> IMAGE_FIELDS[f].keys[1],
                 force |-> FALSE]>>)
    /\ UNCHANGED <<storage, ppoitext, edits, cleanups, batch,
                   source, form, memo, reads>>

\* ImageField._generate_files, the post_save receiver of field f, for the
\* saved record r: process(item) for every format, in order
_generate_files(c, f, r) ==
    /\ HasField(f, r)
    /\ Handle(c, "hook",
              [i \in 1..Len(IMAGE_FIELDS[f].keys) |->
                  [field |-> f, rec |-> r, item |-> IMAGE_FIELDS[f].keys[i],
                   force |-> FALSE]])
    /\ UNCHANGED <<storage, ppoitext, edits, cleanups, batch,
                   source, form, memo, reads>>

\* the PPOI text field of a record is edited (PPOIField is a CharField)
SetPpoi(r, text) ==
    /\ edits < MaxPpoiEdits
    /\ ppoitext[r] # text
    /\ ppoitext' = [ppoitext EXCEPT ![r] = text]
    /\ edits' = edits + 1
    /\ UNCHANGED <<storage, pc, cur, queue, kind, result, hist, started,
                   cleanups, batch, source, form, memo, reads>>

\* what a form hands to save_form_data: None (the image was not touched),
\* a falsy value (the image was cleared) or an uploaded file, by its name
FormData == {None, EmptyName, N1, N2}

\* "not data": None and the empty value are falsy, a file is truthy
Falsy(data) == data \in {None, EmptyName}

\* the PPOI is reset for every falsy value, None included
ClearsOnFalsy(data) == Falsy(data)

\* line 139: data is not None and not data
Clears(data) == data # None /\ Falsy(data)

\* ImageField.save_form_data(instance, data) of field f for record r:
\* FileField.save_form_data assigns data or '' to the image attribute unless
\* data is None (the record then gets a new field file); lines 139-141
\* reset the PPOI field
save_form_data(f, r, data) ==
    /\ HasField(f, r)
    /\ form.n < MaxFormSaves
    /\ source' = IF data = None THEN source
                 ELSE [source EXCEPT ![<<f, r>>] =
                          IF Falsy(data) THEN EmptyName ELSE data]
    /\ memo' = IF data = None THEN memo
               ELSE [memo EXCEPT ![<<f, r>>] = NoMemo]
    /\ ppoitext' = IF Clears(data) /\ IMAGE_FIELDS[f].ppoi_field
                   THEN [ppoitext EXCEPT ![r] = <<"0.5", "x", "0.5">>]
                   ELSE ppoitext
    /\ form' = [n |-> form.n + 1, field |-> f, rec |-> r, data |-> data,
                before |-> ppoitext[r], after |-> ppoitext'[r],
                name |-> source'[<<f, r>>]]
    /\ UNCHANGED <<storage, pc, cur, queue, kind, result, hist, started, edits,
                   cleanups, batch, reads>>

\* ImageField._clear_generated_files, the post_delete receiver: a
\* staticmethod whose first statement reads self.name, and self is no name
\* of its scope: NameError, before the storage is listed or changed
ClearGeneratedFiles(st, f, r) ==
    [storage |-> st, outcome |-> "NameError"]

_clear_generated_files(f, r) ==
    /\ HasField(f, r)
    /\ Cardinality(cleanups) < MaxCleanups
    /\ LET res == ClearGeneratedFiles(storage, f, r)
       IN /\ storage' = res.storage
          /\ cleanups' = cleanups \cup
                {[field |-> f, rec |-> r, name |-> SourceName(f, r),
                  outcome |-> res.outcome, at |-> started]}
    /\ cleanups' # cleanups
    /\ UNCHANGED <<ppoitext, pc, cur, queue, kind, result, hist, started, edits,
                   batch, source, form, memo, reads>>

(***************************************************************************)
(* The management command process_all_imagefields.                         *)
(***************************************************************************)
EmptyDict == [k \in {} |-> <<>>]
DictPut(d, k, v) == [x \in (DOMAIN d) \cup {k} |-> IF x = k THEN v ELSE d[x]]

\* parts[:n] and parts[n:]
Take(parts, n) == SubSeq(parts, 1, IF n < Len(parts) THEN n ELSE Len(parts))
Drop(parts, n) == SubSeq(parts, n + 1, Len(parts))

\* lines 28-30: the loop over the field arguments
RECURSIVE FilterLoop(_, _)
FilterLoop(d, fields) ==
    IF fields = <<>> THEN d
    ELSE LET parts == Split(Lower(Head(fields)), ".")
         IN FilterLoop(DictPut(d, Join(Take(parts, 2), <<".">>), Drop(parts, 2)),
                       Tail(fields))

\* Command._make_filter: [none, map].  Line 25 sets the filter to None when
\* there are no arguments, and line 27 then sets it to {} in every case.
_make_filter(fields) ==
    LET line25 == IF fields = <<>> THEN [none |-> TRUE, map |-> EmptyDict]
                  ELSE [none |-> FALSE, map |-> EmptyDict]
        line27 == [line25 EXCEPT !.none = FALSE, !.map = EmptyDict]
    IN [line27 EXCEPT !.map = FilterLoop(line27.map, fields)]

\* Command._skip_field
_skip_field(filter, f) ==
    IF filter.none THEN FALSE
    ELSE IF IMAGE_FIELDS[f].label \notin DOMAIN filter.map THEN TRUE
    ELSE LET fields == filter.map[IMAGE_FIELDS[f].label]
         IN fields # <<>>
            /\ \A i \in 1..Len(fields) : fields[i] # IMAGE_FIELDS[f].name

\* lines 51-60 for one field: the calls for its records, in queryset order
RECURSIVE FieldCalls(_, _, _)
FieldCalls(f, recs, force) ==
    IF recs = <<>> THEN <<>>
    ELSE LET r == Head(recs)
             mine == IF HasField(f, r) /\ SourceName(f, r) # EmptyName
                     THEN [i \in 1..Len(IMAGE_FIELDS[f].keys) |->
                              [field |-> f, rec |-> r,
                               item |-> IMAGE_FIELDS[f].keys[i],
                               force |-> force]]
                     ELSE <<>>
         IN mine \o FieldCalls(f, Tail(recs), force)

\* lines 42-60: the fields the command prints and the calls it makes
RECURSIVE HandleFields(_, _, _)
HandleFields(filter, fs, force) ==
    IF fs = <<>> THEN [out |-> <<>>, calls |-> <<>>]
    ELSE LET f == Head(fs)
             rest == HandleFields(filter, Tail(fs), force)
         IN IF _skip_field(filter, f) THEN rest
            ELSE [out |-> <<f>> \o rest.out,
                  calls |-> FieldCalls(f, AllRecords, force) \o rest.calls]

FilterArgs ==
    { <<"app", ".", "m1">>, <<"app", ".", "m1", ".", "image">>,
      <<"app", ".", "m1", ".", "cover">>, <<"app", ".", "m2">>,
      <<"App", ".", "M1", ".", "Image">> }

ArgLists == UNION {[1..n -> FilterArgs] : n \in 0..MaxFilterArgs}

\* Command.handle(field=args, force=force)
handle(c, args, force) ==
    /\ c = MainCaller
    /\ ~batch.ran
    /\ pc[c] = "idle"
    /\ queue[c] = <<>>
    /\ LET plan == HandleFields(_make_filter(args), [i \in FieldIds |-> i], force)
       IN /\ kind' = [kind EXCEPT ![c] = "batch"]
          /\ batch' = [ran |-> TRUE, args |-> args, force |-> force,
                       out |-> plan.out]
          /\ IF plan.calls = <<>>
             THEN /\ result' = [result EXCEPT ![c] = "returned"]
                  /\ UNCHANGED <<pc, cur, queue, hist, started>>
             ELSE Enter(c, "batch", plan.calls)
    /\ UNCHANGED <<storage, ppoitext, edits, cleanups, source, form, memo,
                   reads>>

(***************************************************************************)
(* Format attributes of a field file.                                      *)
(***************************************************************************)
\* storage.url(name): the media URL of a storage path
Url(path) == <<"/media/">> \o path

\* every read goes through __getattr__
NeverMemoized(m, item) == FALSE

\* the attribute is found on the instance, where line 34 has set it:
\* Python does not call __getattr__ then
Memoized(m, item) == item \in DOMAIN m

\* reading the attribute item of the field file of field f on record r
\* (ImageFieldFile.__getattr__ when the attribute is not set yet)
ReadFormat(f, r, item) ==
    /\ HasField(f, r)
    /\ Len(reads) < MaxReads
    /\ LET m == memo[<<f, r>>]
           pp == _ppoi(IMAGE_FIELDS[f].ppoi_field, ppoitext[r])
           rd == [field |-> f, rec |-> r, item |-> item,
                  name |-> SourceName(f, r), ppoitext |-> ppoitext[r],
                  outcome |-> "ok", url |-> <<>>]
       IN IF Memoized(m, item)
          THEN /\ reads' = Append(reads, [rd EXCEPT !.url = m[item]])
               /\ UNCHANGED memo
          ELSE IF ~pp.ok
          THEN /\ reads' = Append(reads, [rd EXCEPT !.outcome = pp.error])
               /\ UNCHANGED memo
          ELSE LET url == Url(_processed_name(SourceName(f, r), Recipe(f, item),
                                              pp.value))
               IN /\ memo' = [memo EXCEPT ![<<f, r>>] = DictPut(m, item, url)]
                  /\ reads' = Append(reads, [rd EXCEPT !.url = url])
    /\ UNCHANGED <<storage, ppoitext, pc, cur, queue, kind, result, hist,
                   started, edits, cleanups, batch, source, form>>

(***************************************************************************)
(* Specifications.                                                         *)
(***************************************************************************)
Step(c) ==
    \/ ProcessEnter(c)
    \/ ProcessGenerate(c)
    \/ ProcessDelete(c)
    \/ ProcessSave(c)

Items(f) == {IMAGE_FIELDS[f].keys[i] : i \in 1..Len(IMAGE_FIELDS[f].keys)}

\* independent callers (requests) against one storage
Next ==
    \/ \E c \in Callers, f \in FieldIds, r \in Records, force \in BOOLEAN :
          \E item \in Items(f) : Call(c, f, r, item, force)
    \/ \E c \in Callers, f \in FieldIds, r \in Records : _generate_files(c, f, r)
    \/ \E c \in Callers : Step(c)

Spec == Init /\ [][Next]_vars

\* one caller whose handlers run one after the other
SeqNext ==
    \/ \E f \in FieldIds, r \in Records, force \in BOOLEAN :
          \E item \in Items(f) : Call(MainCaller, f, r, item, force)
    \/ \E f \in FieldIds, r \in Records : _generate_files(MainCaller, f, r)
    \/ Step(MainCaller)

SeqSpec == Init /\ [][SeqNext]_vars

\* one caller, with the post_delete receiver run between its handlers
CleanupNext ==
    \/ \E f \in FieldIds, r \in Records, force \in BOOLEAN :
          \E item \in Items(f) : Call(MainCaller, f, r, item, force)
    \/ \E f \in FieldIds, r \in Records : AllIdle /\ _clear_generated_files(f, r)
    \/ ProcessGenerate(MainCaller)
    \/ ProcessDelete(MainCaller)
    \/ ProcessSave(MainCaller)

CleanupSpec == Init /\ [][CleanupNext]_vars

\* one caller, with edits of the PPOI fields between its calls (the calls
\* are not forced: what the storage holds decides whether they generate)
EditNext ==
    \/ \E f \in FieldIds, r \in Records :
          \E item \in Items(f) : Call(MainCaller, f, r, item, FALSE)
    \/ \E r \in Records, text \in PpoiTexts : AllIdle /\ SetPpoi(r, text)
    \/ ProcessGenerate(MainCaller)
    \/ ProcessDelete(MainCaller)
    \/ ProcessSave(MainCaller)

EditSpec == Init /\ [][EditNext]_vars

\* the management command, alone
BatchNext ==
    \/ \E args \in ArgLists, force \in BOOLEAN : handle(MainCaller, args, force)
    \/ Step(MainCaller)

BatchSpec == Init /\ [][BatchNext]_vars

\* one caller whose calls can fail at every step
FaultNext ==
    \/ \E f \in FieldIds, r \in Records, force \in BOOLEAN :
          \E item \in Items(f) : Call(MainCaller, f, r, item, force)
    \/ ProcessGenerate(MainCaller)
    \/ ProcessDelete(MainCaller)
    \/ ProcessSave(MainCaller)
    \/ \E step \in FailSteps : ProcessFails(MainCaller, step)

FaultSpec == Init /\ [][FaultNext]_vars

\* a record is edited through a form: its PPOI field, then its image field
FormNext ==
    \/ \E r \in Records, text \in PpoiTexts : SetPpoi(r, text)
    \/ \E f \in FieldIds, r \in Records, data \in FormData :
          save_form_data(f, r, data)

FormSpec == Init /\ [][FormNext]_vars

\* format URLs are read between edits of the PPOI fields
UrlNext ==
    \/ \E f \in FieldIds, r \in Records :
          \E item \in Items(f) : ReadFormat(f, r, item)
    \/ \E r \in Records, text \in PpoiTexts : SetPpoi(r, text)

UrlSpec == Init /\ [][UrlNext]_vars

(***************************************************************************)
(* Properties.                                                             *)
(***************************************************************************)
FullOps ==
    <<"open", "decode", "build", "pipeline", "encode", "delete", "save">>
Raised(call) == call.outcome \notin {"hit", "saved"}
SameTriple(a, b) ==
    a.name = b.name /\ a.processors = b.processors /\ a.ppoi = b.ppoi
Resolved(call) == call.target # <<>>
Count(op, ops) == Cardinality({i \in 1..Len(ops) : ops[i] = op})
InFlight == {cur[c] : c \in {d \in Callers : pc[d] # "idle"}}
Calls == {hist[i] : i \in 1..Len(hist)} \cup InFlight

\* C1: two successive calls of process with force=False for the same source,
\* recipe and PPOI, starting from an empty storage: when the first returns
\* it has made exactly one exists/open/decode/build/pipeline/encode/delete/
\* save sequence and written the target; the second finds the target, returns
\* after the exists check alone and leaves the storage as the first left it.
C1_Idempotence ==
    (/\ Len(hist) >= 2
     /\ SameTriple(hist[1], hist[2])
     /\ ~hist[1].force /\ ~hist[2].force
     /\ ~Raised(hist[1]))
    => /\ hist[1].outcome = "saved"
       /\ hist[1].ops = <<"exists">> \o FullOps
       /\ hist[1].saved = hist[1].target
       /\ hist[2].outcome = "hit"
       /\ hist[2].ops = <<"exists">>
       /\ (Len(hist) = 2 /\ AllIdle =>
              storage = StorageWrite(EmptyStorage, hist[1].target,
                                     Output(hist[1])))

C1_Witness ==
    /\ Len(hist) = 2
    /\ SameTriple(hist[1], hist[2])
    /\ hist[1].rec # hist[2].rec
    /\ ~hist[1].force /\ ~hist[2].force
    /\ hist[1].outcome = "saved"
    /\ hist[2].outcome = "hit"

\* C2: a call of process with force=True never takes the early return and
\* never asks whether the target exists; when it returns it has run the full
\* open/decode/build/pipeline/encode/delete/save sequence and the target path
\* holds the bytes this call produced, whether or not a file was there.
C2_ForceOverride ==
    \A i \in 1..Len(hist) :
        hist[i].force =>
            /\ hist[i].outcome # "hit"
            /\ Count("exists", hist[i].ops) = 0
            /\ (~Raised(hist[i]) =>
                   /\ hist[i].ops = FullOps
                   /\ hist[i].saved = hist[i].target
                   /\ (i = Len(hist) /\ InFlight = {} =>
                          /\ StorageExists(storage, hist[i].target)
                          /\ storage[hist[i].target] = Output(hist[i])))

C2_Witness ==
    /\ Len(hist) = 2
    /\ InFlight = {}
    /\ hist[1].outcome = "saved"
    /\ hist[2].force
    /\ hist[2].outcome = "saved"
    /\ hist[2].target = hist[1].target
    /\ storage[hist[2].target].by = hist[2].id

\* the storage paths _processed_base(name) designates
UnderBase(st, name) ==
    {p \in DOMAIN st :
        /\ DirName(p) = _processed_base(name).folder
        /\ StartsWith(BaseName(p), _processed_base(name).startswith)}

\* C3: once the post-delete cleanup has run for a source, and as long as no
\* call of process has started since, the storage holds no path in that
\* source's shard directory whose file name starts with its prefix.
C3_CleanupComplete ==
    \A cl \in cleanups :
        (cl.at = started /\ InFlight = {}) => UnderBase(storage, cl.name) = {}

\* C4: when two or more calls of process for the same source, recipe and
\* PPOI have all missed the existence check and all have finished, the
\* storage holds exactly one file, at the resolved path, with the pipeline
\* output for that triple.
C4_ConcurrentHarmless ==
    (/\ Len(hist) >= 2
     /\ InFlight = {}
     /\ \A i \in 1..Len(hist) :
           /\ SameTriple(hist[i], hist[1])
           /\ ~hist[i].force
           /\ hist[i].outcome = "saved")
    => /\ DOMAIN storage = {hist[1].target}
       /\ storage[hist[1].target].name = hist[1].name
       /\ storage[hist[1].target].processors = hist[1].processors
       /\ storage[hist[1].target].ppoi = hist[1].ppoi

(***************************************************************************)
(* The management command.                                                 *)
(***************************************************************************)
BatchReturned == batch.ran /\ result[MainCaller] = "returned"

CallsOf(f, r, item) ==
    {i \in 1..Len(hist) :
        hist[i].field = f /\ hist[i].rec = r /\ hist[i].item = item}

\* C5: the command run with no field arguments calls process exactly once,
\* with the command's force flag, for every registered field, every record
\* of its model with a non-empty source image and every format of the
\* field, and never for a record whose source image is empty.
C5_BatchCoversAll ==
    (BatchReturned /\ batch.args = <<>>) =>
        \A f \in FieldIds, r \in Records :
            HasField(f, r) =>
                \A item \in Items(f) :
                    IF SourceName(f, r) = EmptyName
                    THEN CallsOf(f, r, item) = {}
                    ELSE /\ Cardinality(CallsOf(f, r, item)) = 1
                         /\ \A i \in CallsOf(f, r, item) :
                               hist[i].force = batch.force

\* a filter argument selects a field: its model label alone, or model.field
Selects(arg, f) ==
    \/ Lower(arg) = IMAGE_FIELDS[f].label
    \/ Lower(arg) = IMAGE_FIELDS[f].label \o <<".">> \o IMAGE_FIELDS[f].name

\* C6: the command given a list of filters processes a registered field if
\* and only if the list holds its model label alone or the entry
\* model.field that names it.
C6_FilterSemantics ==
    (batch.ran /\ batch.args # <<>>) =>
        \A f \in FieldIds :
            (\E i \in 1..Len(batch.out) : batch.out[i] = f)
            <=> (\E k \in 1..Len(batch.args) : Selects(batch.args[k], f))

\* the calls the command has to make for the fields it processes
RECURSIVE Planned(_, _)
Planned(out, force) ==
    IF out = <<>> THEN <<>>
    ELSE FieldCalls(Head(out), AllRecords, force) \o Planned(Tail(out), force)

ArgOf(call) ==
    [field |-> call.field, rec |-> call.rec, item |-> call.item,
     force |-> call.force]

\* C7: whatever calls of process have failed, the calls the command has made
\* followed by the calls it still has to make are the calls for every record
\* and format of the fields it processes, in order; the command never ends
\* with an exception, and it has returned once no call is left.
C7_BatchResilience ==
    batch.ran =>
        /\ [i \in 1..Len(hist) |-> ArgOf(hist[i])] \o queue[MainCaller]
              = Planned(batch.out, batch.force)
        /\ result[MainCaller] # "raised"
        /\ (pc[MainCaller] = "idle" /\ queue[MainCaller] = <<>>
               => result[MainCaller] = "returned")
        /\ (result[MainCaller] = "returned" =>
               Len(hist) = Len(Planned(batch.out, batch.force)))

C7_Witness ==
    /\ BatchReturned
    /\ Len(hist) >= 3
    /\ Raised(hist[1])
    /\ hist[2].rec = hist[1].rec /\ hist[2].outcome = "saved"
    /\ hist[3].rec # hist[1].rec /\ hist[3].outcome = "saved"

C9_PathSensitivity ==
    \A a, b \in Calls :
        (/\ Resolved(a) /\ Resolved(b)
         /\ a.name = b.name
         /\ (a.processors # b.processors \/ a.ppoi # b.ppoi))
        => a.target # b.target

\* the text is two floats separated by "x"
ParsesAsPair(text) ==
    /\ text # None
    /\ Len(Split(text, "x")) = 2
    /\ \A i \in 1..2 : IsFloatLiteral(Split(text, "x")[i])

\* C10: a call of process uses the PPOI (0.5, 0.5), and raises no error for
\* the PPOI, when the field has no PPOI field or the PPOI text is missing,
\* empty or not two floats separated by "x".
C10_PpoiDefaulting ==
    \A a \in Calls :
        (~IMAGE_FIELDS[a.field].ppoi_field \/ ~ParsesAsPair(a.ppoitext))
        => /\ a.outcome \notin {"AttributeError", "ValueError"}
           /\ a.ppoi = DefaultPpoi

\* C11: a call of process that fails at the pipeline build, because its
\* recipe names an unknown processor, has by then not opened or decoded the
\* source and has not deleted or saved anything in the storage.
C11_ConfigBeforeIO ==
    \A i \in 1..Len(hist) :
        (/\ ~build_handler(hist[i].processors).ok
         /\ hist[i].outcome = "ConfigurationError")
        => \A op \in {"open", "decode", "delete", "save"} :
               Count(op, hist[i].ops) = 0

\* the path process resolves for a format of a field of a record now
TargetNow(f, r, item) ==
    _processed_name(SourceName(f, r), Recipe(f, item),
                    _ppoi(IMAGE_FIELDS[f].ppoi_field, ppoitext[r]).value)

\* C12: when the post-save receiver of a field has returned for a record
\* with a non-empty source image, it has called process once per format of
\* the field, in order and with force=False; every format's path for the
\* record's current PPOI holds a file; a file that was already there was
\* left as it was (the call returned after the exists check), and a file
\* that was missing was written by the receiver's call.
C12_PostSaveGeneration ==
    (/\ kind[MainCaller] = "hook"
     /\ result[MainCaller] = "returned"
     /\ hist[Len(hist)].name # EmptyName)
    => LET n == Len(hist)
           f == hist[n].field
           r == hist[n].rec
           keys == IMAGE_FIELDS[f].keys
           k == Len(keys)
           mine == {hist[j].id : j \in (n - k + 1)..n}
       IN /\ n >= k
          /\ \A i \in 1..k :
                LET a == hist[n - k + i]
                IN /\ ArgOf(a) = [field |-> f, rec |-> r, item |-> keys[i],
                                  force |-> FALSE]
                   /\ a.target = TargetNow(f, r, keys[i])
                   /\ StorageExists(storage, a.target)
                   /\ a.outcome \in {"hit", "saved"}
                   /\ (a.outcome = "hit" =>
                          /\ a.ops = <<"exists">>
                          /\ storage[a.target].by \notin mine)
                   /\ (a.outcome = "saved" =>
                          /\ a.ops = <<"exists">> \o FullOps
                          /\ storage[a.target] = Output(a))

C12_Witness ==
    /\ kind[MainCaller] = "hook"
    /\ result[MainCaller] = "returned"
    /\ Len(hist) = 2
    /\ hist[1].item = "thumb" /\ hist[1].outcome = "saved"
    /\ hist[2].item = "square" /\ hist[2].outcome = "saved"
    /\ hist[1].rec = hist[2].rec
    /\ DOMAIN storage = {hist[1].target, hist[2].target}

\* s is the beginning of t
IsPrefix(s, t) == Len(s) <= Len(t) /\ SubSeq(t, 1, Len(s)) = s

\* C13: a call of process that missed the existence check or is forced
\* takes its steps in the order open, decode, pipeline (built, then run),
\* encode, delete, save; while it runs and when it has ended, every storage path other than
\* its target is as it was when the call began.
C13_OrderAndFrame ==
    \A a \in Calls :
        (Resolved(a) /\ a.outcome # "hit") =>
            /\ IsPrefix(a.ops, IF a.force THEN FullOps
                                ELSE <<"exists">> \o FullOps)
            /\ (a.outcome = "saved" => a.saved = a.target)
            /\ (a.id = started =>
                   \A p \in (DOMAIN storage \cup DOMAIN a.before) \ {a.target} :
                       /\ p \in DOMAIN storage
                       /\ p \in DOMAIN a.before
                       /\ storage[p] = a.before[p])

C13_Witness ==
    /\ Len(hist) = 2
    /\ InFlight = {}
    /\ hist[1].outcome = "saved"
    /\ hist[2].outcome = "saved"
    /\ hist[2].force
    /\ hist[2].ops = FullOps
    /\ hist[2].target # hist[1].target
    /\ hist[2].before = StorageWrite(EmptyStorage, hist[1].target, Output(hist[1]))
    /\ storage = StorageWrite(hist[2].before, hist[2].target, Output(hist[2]))

\* C14: in every state, when the path resolved for the source name, recipe
\* and PPOI of a format of a field of a record holds a file, the file was
\* written by a call of process for exactly that source name, recipe and
\* PPOI and its content is the pipeline output for them.
C14_DerivativeIdentity ==
    \A f \in FieldIds, r \in Records :
        HasField(f, r) =>
            \A item \in Items(f) :
                LET pp == _ppoi(IMAGE_FIELDS[f].ppoi_field, ppoitext[r])
                    t == TargetNow(f, r, item)
                IN (pp.ok /\ StorageExists(storage, t)) =>
                      /\ storage[t].name = SourceName(f, r)
                      /\ storage[t].processors = Recipe(f, item)
                      /\ storage[t].ppoi = pp.value
                      /\ \E a \in Calls :
                            /\ a.id = storage[t].by
                            /\ a.name = SourceName(f, r)
                            /\ a.processors = Recipe(f, item)
                            /\ a.ppoi = pp.value

\* the storage path a media URL addresses
PathOf(url) == Tail(url)

\* the folder is the folder, and the file name starts with the prefix,
\* that _processed_base gives for the source name
MatchesBase(folder, file, name) ==
    LET base == _processed_base(name)
    IN folder = base.folder /\ StartsWith(file, base.startswith)

\* the attribute reads that resolved a path
Resolutions == {i \in 1..Len(reads) : reads[i].outcome = "ok"}

\* C15: for every recipe and PPOI, the path _processed_name resolves for a
\* source name lies in the folder of _processed_base for that name and its
\* file name starts with the prefix of _processed_base for that name, and
\* it does not match the folder and prefix of a different source name.
C15_PrefixCoversDerivatives ==
    \A i \in Resolutions :
        LET path == PathOf(reads[i].url)
            folder == DirName(path)
            file == BaseName(path)
        IN /\ MatchesBase(folder, file, reads[i].name)
           /\ \A name \in {reads[k].name : k \in Resolutions} \ {reads[i].name} :
                  ~MatchesBase(folder, file, name)

C15_Witness ==
    /\ Resolutions = {1, 2}
    /\ reads[1].name = N1 /\ reads[2].name = N2
    /\ reads[1].item # reads[2].item
    /\ reads[1].ppoitext = <<"0.5", "x", "0.5">>
    /\ reads[2].ppoitext = <<"0.2", "x", "0.8">>
    /\ IMAGE_FIELDS[reads[2].field].ppoi_field
    /\ DirName(PathOf(reads[1].url)) = DirName(PathOf(reads[2].url))
    /\ BaseName(PathOf(reads[1].url)) # BaseName(PathOf(reads[2].url))

\* C16: save_form_data sets the record's PPOI text to 0.5x0.5 when the data
\* is falsy but not None and the field has a PPOI field; when the data is
\* None, or a new image, or the field has no PPOI field, the PPOI text
\* after the call is the text before it.
C16_PpoiResetOnClear ==
    form.n > 0 =>
        IF form.data # None /\ form.data = EmptyName
           /\ IMAGE_FIELDS[form.field].ppoi_field
        THEN form.after = <<"0.5", "x", "0.5">>
        ELSE form.after = form.before

C16_Witness ==
    /\ form.n > 0
    /\ form.data = EmptyName
    /\ IMAGE_FIELDS[form.field].ppoi_field
    /\ form.before = <<"0.2", "x", "0.8">>
    /\ form.name = EmptyName
    /\ ppoitext[form.rec] = <<"0.5", "x", "0.5">>

\* the URL of the path process writes for the format read, for a PPOI text
UrlFor(rd, text) ==
    Url(_processed_name(rd.name, Recipe(rd.field, rd.item),
                        _ppoi(IMAGE_FIELDS[rd.field].ppoi_field, text).value))

SameAttribute(a, b) ==
    a.field = b.field /\ a.rec = b.rec /\ a.item = b.item

\* C17: every read of a format attribute returns the URL of the path that
\* process writes for the PPOI the record has at the time of the read, also
\* after an earlier read, a change of the PPOI and another call of process.
C17_FormatUrlCurrent ==
    \A i \in 1..Len(reads) :
        (/\ reads[i].outcome = "ok"
         /\ _ppoi(IMAGE_FIELDS[reads[i].field].ppoi_field,
                  reads[i].ppoitext).ok)
        => reads[i].url = UrlFor(reads[i], reads[i].ppoitext)

\* C17, as the code has it: the first read of a format attribute of a field
\* file returns the URL of the path that process writes for the PPOI the
\* record has at that time, and every later read of the attribute returns
\* that same URL, whatever the record's PPOI has become.
C17_FormatUrlMemoized ==
    \A i \in 1..Len(reads) :
        reads[i].outcome = "ok" =>
            LET same == {j \in 1..i : /\ SameAttribute(reads[j], reads[i])
                                      /\ reads[j].outcome = "ok"}
                first == CHOOSE j \in same : \A k \in same : j <= k
            IN reads[i].url = UrlFor(reads[first], reads[first].ppoitext)

C17_Witness ==
    /\ Len(reads) = 2
    /\ SameAttribute(reads[1], reads[2])
    /\ reads[1].ppoitext = <<"0.5", "x", "0.5">>
    /\ reads[2].ppoitext = <<"0.2", "x", "0.8">>
    /\ ppoitext[reads[2].rec] = reads[2].ppoitext
    /\ reads[2].url = reads[1].url
    /\ reads[2].url # Url(TargetNow(reads[2].field, reads[2].rec, reads[2].item))

\* C18: once a call of process has written a file at a derivative path, the
\* path holds a file in every later state that another caller can observe
\* (no cleanup runs here), the states inside a forced call and inside a
\* call that passed the existence check before the file was there included.
C18_DerivativeStaysVisible ==
    \A i \in 1..Len(hist) :
        hist[i].outcome = "saved" => StorageExists(storage, hist[i].saved)

\* C19: when a call of process has failed, at whatever step (opening or
\* decoding the source, building the pipeline, a processor, encoding, the
\* storage save), the storage is as it was when the call began; a file that
\* was at the target path before a failed forced call is still there.
C19_FailureLeavesStorage ==
    (/\ Len(hist) > 0
     /\ InFlight = {}
     /\ Raised(hist[Len(hist)]))
    => storage = hist[Len(hist)].before

\* C20: when the post-save receiver has ended for a record whose source
\* image is empty, it has returned without raising, and its calls of
\* process have neither deleted nor saved anything in the storage.
C20_HookToleratesEmptySource ==
    (/\ kind[MainCaller] = "hook"
     /\ pc[MainCaller] = "idle"
     /\ queue[MainCaller] = <<>>
     /\ hist[Len(hist)].name = EmptyName)
    => /\ result[MainCaller] = "returned"
       /\ \A op \in {"delete", "save"} : Count(op, hist[Len(hist)].ops) = 0

=============================================================================
